---- MODULE Spec2Model ----
(***************************************************************************)
(* A model of src/src/split.js: the Split instance (panes, gutters, the    *)
(* draggingGutter guard), the listeners it registers on the global event   *)
(* source, and the handlers startDragging, drag, stopDragging and the      *)
(* public collapse operation.                                              *)
(*                                                                         *)
(* JavaScript numbers are modelled as pairs <<n, d>>: a rational n/d when  *)
(* d > 0, NaN when <<0, 0>>, +Infinity <<1, 0>>, -Infinity <<-1, 0>>.      *)
(* The value `undefined` (a property that was never assigned) is a value   *)
(* of its own and converts to NaN in arithmetic, as in JavaScript.         *)
(***************************************************************************)
EXTENDS Integers, Sequences, FiniteSets, TLC

(* ------------------------------ bounds --------------------------------- *)

\* Largest number of panes a split is constructed with.
MaxPanes == 3

\* Number of input events (pointer-downs, dispatched window events, API
\* calls) a behaviour may contain.
MaxEvents == 4

\* Pixel extent of the parent element along the split's dimension.
ParentSize == 900

\* Pointer coordinates (clientX) a move event may carry.
ClientXs == {60, 400}

(* ------------------------ program constants ---------------------------- *)

minSize == 100

gutterSize == 10

snapOffset == 30

cursor == "ew-resize"

(* ------------------------ JavaScript numbers --------------------------- *)

NaN == <<0, 0>>

PosInf == <<1, 0>>

NegInf == <<-1, 0>>

Undefined == <<0, -1>>

Rat(n) == <<n, 1>>

Abs(n) == IF n < 0 THEN -n ELSE n

RECURSIVE GCD(_, _)
GCD(a, b) == IF b = 0 THEN a ELSE GCD(b, a % b)

\* The rational n/d (d > 0) in lowest terms.
Norm(n, d) == LET g == GCD(Abs(n), d) IN <<n \div g, d \div g>>

ToNumber(v) == IF v = Undefined THEN NaN ELSE v

IsFinite(v) == v[2] > 0

Sgn(n) == IF n < 0 THEN -1 ELSE IF n > 0 THEN 1 ELSE 0

Neg(v) == LET x == ToNumber(v) IN <<-x[1], x[2]>>

Add(v, w) ==
    LET x == ToNumber(v)
        y == ToNumber(w)
    IN  IF x = NaN \/ y = NaN THEN NaN
        ELSE IF x[2] = 0 /\ y[2] = 0 THEN (IF x = y THEN x ELSE NaN)
        ELSE IF x[2] = 0 THEN x
        ELSE IF y[2] = 0 THEN y
        ELSE Norm(x[1] * y[2] + y[1] * x[2], x[2] * y[2])

Sub(v, w) == Add(v, Neg(w))

Mul(v, w) ==
    LET x == ToNumber(v)
        y == ToNumber(w)
    IN  IF x = NaN \/ y = NaN THEN NaN
        ELSE IF x[2] = 0 \/ y[2] = 0
             THEN (IF x[1] = 0 \/ y[1] = 0 THEN NaN
                   ELSE <<Sgn(x[1]) * Sgn(y[1]), 0>>)
        ELSE Norm(x[1] * y[1], x[2] * y[2])

Div(v, w) ==
    LET x == ToNumber(v)
        y == ToNumber(w)
    IN  IF x = NaN \/ y = NaN THEN NaN
        ELSE IF y[2] = 0
             THEN (IF x[2] = 0 THEN NaN ELSE Rat(0))
        ELSE IF y[1] = 0
             THEN (IF x[1] = 0 THEN NaN ELSE <<Sgn(x[1]), 0>>)
        ELSE IF x[2] = 0 THEN <<Sgn(x[1]) * Sgn(y[1]), 0>>
        ELSE Norm(Sgn(y[1]) * x[1] * y[2], x[2] * Abs(y[1]))

\* x < y on JavaScript numbers: false as soon as an operand is NaN.
Lt(v, w) ==
    LET x == ToNumber(v)
        y == ToNumber(w)
    IN  IF x = NaN \/ y = NaN \/ x = y THEN FALSE
        ELSE IF x = NegInf \/ y = PosInf THEN TRUE
        ELSE IF x = PosInf \/ y = NegInf THEN FALSE
        ELSE x[1] * y[2] < y[1] * x[2]

Gt(v, w) == Lt(w, v)

Le(v, w) ==
    LET x == ToNumber(v)
        y == ToNumber(w)
    IN  x # NaN /\ y # NaN /\ (x = y \/ Lt(x, y))

Ge(v, w) == Le(w, v)

\* x === y on JavaScript numbers: NaN equals nothing, itself included.
NumEq(v, w) == v # Undefined /\ w # Undefined /\ v # NaN /\ v = w

\* !v : the values JavaScript treats as false.
Falsy(v) == v = Undefined \/ v = NaN \/ v = Rat(0)

(* ------------------------------- state --------------------------------- *)

VARIABLES
    count,          \* ids.length: the number of panes
    pushablePanes,  \* options.pushablePanes
    sizesGiven,     \* options.sizes is given
    panes,          \* panes[i], i in 0..count-1: the Pane objects
    gutters,        \* gutters[g], g in 0..count-2: the Gutter objects
    draggingGutter, \* the gutter the guard variable refers to, or Null
    listeners,      \* listeners[type]: the functions registered on `global`
    parentStyle,    \* parent.style.cursor and document.body.style.cursor
    nextId,         \* serial of the next function object made by bind()
    calls,          \* how often each callback of `options` has been called
    event,          \* the window event being dispatched
    pending,        \* the listeners of that event still to be invoked
    startPair,      \* the pair object of the latest startDragging call
    last,           \* the handler or operation that ran last, and its data
    nEvents         \* input events and API calls so far

vars == <<count, pushablePanes, sizesGiven, panes, gutters, draggingGutter, listeners,
          parentStyle, nextId, calls, event, pending, startPair, last,
          nEvents>>

Null == -1

StopTypes == {"mouseup", "touchend", "touchcancel"}

MoveTypes == {"mousemove", "touchmove"}

EventTypes == StopTypes \cup MoveTypes

\* A function object made by fn.bind({ gutterIndex: gi }); id tells apart
\* two objects made by two calls of bind.
Bound(fn, gi, id) == <<fn, gi, id>>

NullFn == <<"null", -1, -1>>

UndefinedFn == <<"undefined", -1, -1>>

PaneIdx == 0 .. (count - 1)

GutterIdx == 0 .. (count - 2)

isFirst(i) == i = 0

isLast(i) == i = count - 1

\* What `last` records: the operation, the gutter or index it was called
\* for, the pointer coordinate of its event, the pair and the offset adjust
\* was called with, and how it ended. A field that does not apply holds Null
\* or Undefined.
Op(op, g, x, a, b, offset, result) ==
    [op |-> op, g |-> g, x |-> x, a |-> a, b |-> b, offset |-> offset,
     result |-> result]

(* ------------------------------ geometry ------------------------------- *)

\* The style a pane is given: calc(pct% - gut px).
Style(pct, gut) == [pct |-> pct, gut |-> gut]

\* The gutter allowance applyPaneSize subtracts from pane i.
gutSize(i) ==
    IF isFirst(i) \/ isLast(i) THEN Div(Rat(gutterSize), Rat(2))
    ELSE Rat(gutterSize)

\* What calc(pct% - gut px) denotes inside a parent of ParentSize pixels.
StylePx(st) == Sub(Mul(Div(st.pct, Rat(100)), Rat(ParentSize)), st.gut)

\* el.getBoundingClientRect()[dimension] of pane i in the state ps.
BoundsSize(ps, i) == StylePx(ps[i].style)

\* el.getBoundingClientRect()[position] of pane i: the panes and gutters
\* before it, laid out from the parent's leading edge.
RECURSIVE BoundsStart(_, _)
BoundsStart(ps, i) ==
    IF i = 0 THEN Rat(0)
    ELSE Add(Add(BoundsStart(ps, i - 1), BoundsSize(ps, i - 1)), Rat(gutterSize))

(* --------------------------- construction ------------------------------ *)

\* options.sizes: omitted (FALSE), or an array giving 10 to every pane but
\* the last, which takes the rest.
sizes(n, given) ==
    [i \in 0 .. (n - 1) |->
        IF given
        THEN (IF i = n - 1 THEN Rat(100 - 10 * (n - 1)) ELSE Rat(10))
        ELSE Div(Rat(100), Rat(n))]

\* NewPane without the lowering of minSize to the computed size.
NewPaneKeepsMinSize(n, given, i) ==
    [minSize    |-> Rat(minSize),
     size       |-> sizes(n, given)[i],
     style      |-> Style(sizes(n, given)[i],
                          IF i = 0 \/ i = n - 1 THEN Div(Rat(gutterSize), Rat(2))
                          ELSE Rat(gutterSize)),
     noSelect   |-> FALSE,
     userSelect |-> ""]

\* The Pane object panes.map builds for index i of n.
NewPane(n, given, i) ==
    LET gut == IF i = 0 \/ i = n - 1 THEN Div(Rat(gutterSize), Rat(2))
               ELSE Rat(gutterSize)
        style == Style(sizes(n, given)[i], gut)
        computedSize == StylePx(style)
    IN  [minSize    |-> IF Lt(computedSize, Rat(minSize)) THEN computedSize
                        ELSE Rat(minSize),
         size       |-> sizes(n, given)[i],
         style      |-> style,
         noSelect   |-> FALSE,
         userSelect |-> ""]

\* The Gutter object pushed for each pane after the first: only `el`, the
\* gutter element, which has been inserted into the parent before the pane.
NewGutter ==
    [move |-> UndefinedFn, stop |-> UndefinedFn, isDragging |-> "undefined",
     cursor |-> "", inParent |-> TRUE]

Init ==
    /\ count \in 1 .. MaxPanes
    /\ pushablePanes \in BOOLEAN
    /\ sizesGiven \in BOOLEAN
    /\ panes = [i \in 0 .. (count - 1) |-> NewPane(count, sizesGiven, i)]
    /\ gutters = [g \in 0 .. (count - 2) |-> NewGutter]
    /\ draggingGutter = Null
    /\ listeners = [t \in EventTypes |-> <<>>]
    /\ parentStyle = ""
    /\ nextId = 0
    /\ calls = [onDragStart |-> 0, onDrag |-> 0, onDragEnd |-> 0]
    /\ event = [type |-> "none", clientX |-> 0]
    /\ pending = <<>>
    /\ startPair = [a |-> Null, b |-> Null, g |-> Null,
                    size |-> Undefined, start |-> Undefined]
    /\ last = Op("Split", Null, Null, Null, Null, Undefined, "ok")
    /\ nEvents = 0

(* ----------------------------- helpers --------------------------------- *)

\* gutters[g].size: no Gutter object is given a `size` property.
GutterSizeProp(g) == Undefined

\* a.pixelSize of a Pane object: no Pane object is given this property.
pixelSize(i) == Undefined

\* a.start of a Pane object: no Pane object is given this property.
PaneStartProp(i) == Undefined

\* panes[i].gutterSize: no Pane object is given this property.
PaneGutterSizeProp(i) == Undefined

\* gutters.slice(start, end).reduce((S, { size }) => S + size, 0)
RECURSIVE widthBetween(_, _)
widthBetween(start, end) ==
    LET len == count - 1
        s == IF start < 0 THEN (IF len + start < 0 THEN 0 ELSE len + start)
             ELSE start
        e0 == IF end < 0 THEN (IF len + end < 0 THEN 0 ELSE len + end) ELSE end
        e == IF e0 > len THEN len ELSE e0
    IN  IF s >= e THEN Rat(0)
        ELSE Add(widthBetween(s, e - 1), GutterSizeProp(e - 1))

\* panes[i] is an object (not undefined).
HasPane(i) == i \in PaneIdx

\* calculateSizes.call(pair); applies where panes[pair.a] and panes[pair.b]
\* exist, and throws a TypeError elsewhere.
calculateSizes(pair) ==
    [pair EXCEPT
        !.size  = Add(Add(BoundsSize(panes, pair.a), widthBetween(pair.a, pair.b)),
                      BoundsSize(panes, pair.b)),
        !.start = BoundsStart(panes, pair.a)]

\* applyPaneSize(panes[i]) on the pane array ps.
applyPaneSize(ps, i) ==
    [ps EXCEPT ![i].style = Style(ps[i].size, gutSize(i))]

\* adjust.call(pair, offset) on the pane array: the new pane array.
adjust(pair, offset) ==
    LET a == panes[pair.a]
        b == panes[pair.b]
        percentage == Add(a.size, b.size)
        pairSize == Add(Add(pixelSize(pair.a), widthBetween(pair.a, pair.b)),
                        pixelSize(pair.b))
        p1 == [panes EXCEPT ![pair.a].size = Mul(Div(offset, pairSize), percentage)]
        p2 == [p1 EXCEPT ![pair.b].size =
                            Sub(percentage, Mul(Div(offset, pairSize), percentage))]
    IN  applyPaneSize(applyPaneSize(p2, pair.a), pair.b)

\* GutterPair with the pair's first index one too low.
GutterPairOffByOne(gutterIndex) ==
    [a |-> IF gutterIndex > 0 THEN gutterIndex - 1 ELSE 0, b |-> gutterIndex + 1,
     g |-> gutterIndex, size |-> Undefined, start |-> Undefined]

\* The pair object startDragging and drag build for a gutter.
GutterPair(gutterIndex) ==
    [a |-> gutterIndex, b |-> gutterIndex + 1, g |-> gutterIndex,
     size |-> Undefined, start |-> Undefined]

\* global.addEventListener(type, fn) for every type in types.
AddListeners(ls, types, fn) ==
    [t \in EventTypes |->
        IF t \in types /\ ~(\E k \in DOMAIN ls[t] : ls[t][k] = fn)
        THEN Append(ls[t], fn) ELSE ls[t]]

\* global.removeEventListener(type, fn) for every type in types.
RemoveListeners(ls, types, fn) ==
    [t \in EventTypes |->
        IF t \in types THEN SelectSeq(ls[t], LAMBDA h : h # fn) ELSE ls[t]]

\* No input is processed while the listeners of an event are still running.
Quiet == pending = <<>> /\ nEvents < MaxEvents

(* --------------------------- startDragging ----------------------------- *)

\* A mousedown or touchstart on gutter element gutterIndex.
startDragging(gutterIndex) ==
    LET pair == GutterPair(gutterIndex)
        move == Bound("drag", gutterIndex, nextId)
        stop == Bound("stopDragging", gutterIndex, nextId)
        l1 == AddListeners(listeners, StopTypes, stop)
    IN  /\ Quiet
        /\ gutterIndex \in GutterIdx
        /\ calls' = IF draggingGutter = Null
                    THEN [calls EXCEPT !.onDragStart = @ + 1] ELSE calls
        /\ draggingGutter' = gutterIndex
        /\ gutters' = [gutters EXCEPT ![gutterIndex].move = move,
                                      ![gutterIndex].stop = stop,
                                      ![gutterIndex].cursor = cursor]
        /\ listeners' = AddListeners(l1, MoveTypes, move)
        /\ panes' = [panes EXCEPT ![pair.a].noSelect = TRUE,
                                  ![pair.a].userSelect = "none",
                                  ![pair.b].noSelect = TRUE,
                                  ![pair.b].userSelect = "none"]
        /\ parentStyle' = cursor
        /\ startPair' = calculateSizes(pair)
        /\ nextId' = nextId + 1
        /\ last' = Op("startDragging", gutterIndex, Null, Null, Null, Undefined, "ok")
        /\ nEvents' = nEvents + 1
        /\ UNCHANGED <<count, pushablePanes, sizesGiven, event, pending>>


(* -------------------------------- drag --------------------------------- *)

Outcome(result, pair, offset) ==
    [result |-> result, pair |-> pair, offset |-> offset]

RECURSIVE CascadeA(_, _, _, _)

\* The body of the first while loop, after `pair.a -= 1` has made the pair
\* p: the geometry is recomputed while pair.size is falsy, which throws a
\* TypeError when panes[pair.a] is undefined. Once pair.size is truthy
\* nothing the loop test reads changes any more, and the loop never ends.
CascadeABody(p, pairOffset, gutterIndex, eventOffset) ==
    IF ~Falsy(p.size) THEN Outcome("hang", p, pairOffset)
    ELSE IF ~(HasPane(p.a) /\ HasPane(p.b)) THEN Outcome("TypeError", p, pairOffset)
    ELSE CascadeA(calculateSizes(p),
                  Add(pairOffset,
                      Sub(Sub(BoundsStart(panes, p.a), BoundsStart(panes, p.a)),
                          panes[gutterIndex].minSize)),
                  gutterIndex, eventOffset)

\* The first while loop of drag. `a` stays panes[gutterIndex] and
\* eventOffset is not assigned in the loop.
CascadeA(pair, pairOffset, gutterIndex, eventOffset) ==
    IF ~isFirst(gutterIndex)
       /\ Lt(eventOffset, Add(PaneStartProp(gutterIndex), panes[gutterIndex].minSize))
    THEN CascadeABody([pair EXCEPT !.a = @ - 1], pairOffset, gutterIndex, eventOffset)
    ELSE Outcome("ok", pair, pairOffset)

RECURSIVE CascadeB(_, _, _, _)

\* The body of the second while loop, after `pair.b += 1` has made the pair
\* p. With pair.size truthy it is not recomputed, the test keeps the value
\* that let the body run, and the loop never ends.
CascadeBBody(p, pairOffset, gutterIndex, eventOffset) ==
    IF ~Falsy(p.size) THEN Outcome("hang", p, pairOffset)
    ELSE IF ~(HasPane(p.a) /\ HasPane(p.b)) THEN Outcome("TypeError", p, pairOffset)
    ELSE CascadeB(calculateSizes(p), pairOffset, gutterIndex, eventOffset)

\* The second while loop of drag. `b` stays panes[gutterIndex + 1]; the test
\* reads pair.size, which calculateSizes assigns.
CascadeB(pair, pairOffset, gutterIndex, eventOffset) ==
    IF ~isLast(gutterIndex + 1)
       /\ Gt(eventOffset, Sub(pair.size, panes[gutterIndex + 1].minSize))
    THEN CascadeBBody([pair EXCEPT !.b = @ + 1], pairOffset, gutterIndex, eventOffset)
    ELSE Outcome("ok", pair, pairOffset)

\* The second loop runs when the first has ended.
CascadeBAfter(ra, gutterIndex, eventOffset) ==
    IF ra.result # "ok" THEN ra
    ELSE CascadeB(ra.pair, ra.offset, gutterIndex, eventOffset)

\* The calculateSizes.call(pair) that follows the loops.
CascadeEnd(rb) ==
    IF rb.result # "ok" THEN rb
    ELSE IF ~(HasPane(rb.pair.a) /\ HasPane(rb.pair.b))
         THEN Outcome("TypeError", rb.pair, rb.offset)
    ELSE Outcome("ok", calculateSizes(rb.pair), rb.offset)

\* Cascade with a first loop that runs its body once before testing.
CascadeBodyFirst(pair, pairOffset, gutterIndex, eventOffset) ==
    CascadeEnd(CascadeBAfter(CascadeABody([pair EXCEPT !.a = @ - 1], pairOffset,
                                          gutterIndex, eventOffset),
                             gutterIndex, eventOffset))

\* The `if (pushablePanes)` block of drag.
Cascade(pair, pairOffset, gutterIndex, eventOffset) ==
    CascadeEnd(CascadeBAfter(CascadeA(pair, pairOffset, gutterIndex, eventOffset),
                             gutterIndex, eventOffset))

\* The snap step of drag: the offset handed to adjust.
Snap(pair, pairOffset) ==
    IF Le(pairOffset,
          Add(Add(panes[pair.a].minSize, Rat(snapOffset)), PaneGutterSizeProp(pair.a)))
    THEN Add(panes[pair.a].minSize, PaneGutterSizeProp(pair.a))
    ELSE IF Ge(pairOffset,
               Sub(pair.size,
                   Add(Add(panes[pair.b].minSize, Rat(snapOffset)),
                       PaneGutterSizeProp(pair.b))))
    THEN Sub(pair.size, Add(panes[pair.b].minSize, PaneGutterSizeProp(pair.b)))
    ELSE pairOffset

\* The snap step applied to what the cascade block left.
Snapped(c) ==
    IF c.result # "ok" THEN c ELSE Outcome("ok", c.pair, Snap(c.pair, c.offset))

\* e[clientAxis] - pair.start, for the pair object drag has just built.
EventOffset(pair, clientX) == Sub(Rat(clientX), pair.start)

\* drag up to the call of adjust: the pair and the offset it is called with.
DragOffset(gutterIndex, clientX) ==
    Snapped(IF pushablePanes
            THEN Cascade(GutterPair(gutterIndex),
                         EventOffset(GutterPair(gutterIndex), clientX),
                         gutterIndex,
                         EventOffset(GutterPair(gutterIndex), clientX))
            ELSE Outcome("ok", GutterPair(gutterIndex),
                         EventOffset(GutterPair(gutterIndex), clientX)))

\* A window event is delivered: its listeners are invoked in the order of
\* their registration.
Dispatch(type) ==
    /\ Quiet
    /\ listeners[type] # <<>>
    /\ \E clientX \in (IF type \in MoveTypes THEN ClientXs ELSE {0}) :
          event' = [type |-> type, clientX |-> clientX]
    /\ pending' = listeners[type]
    /\ last' = Op("dispatch", Null, Null, Null, Null, Undefined, "ok")
    /\ nEvents' = nEvents + 1
    /\ UNCHANGED <<count, pushablePanes, sizesGiven, panes, gutters, draggingGutter,
                   listeners, parentStyle, nextId, calls, startPair>>

\* The listener at the head of `pending` is still registered for the event.
Attached(h) == \E k \in DOMAIN listeners[event.type] : listeners[event.type][k] = h

\* The effect of drag(e) bound to gutterIndex, where r is DragOffset's result.
DragEffect(gutterIndex, clientX, r) ==
    IF draggingGutter = Null
    THEN /\ last' = Op("drag", gutterIndex, clientX, Null, Null, Undefined, "return")
         /\ UNCHANGED <<panes, calls>>
    ELSE IF r.result # "ok"
    THEN /\ last' = Op("drag", gutterIndex, clientX, Null, Null, r.offset, r.result)
         /\ UNCHANGED <<panes, calls>>
    ELSE /\ panes' = adjust(r.pair, r.offset)
         /\ calls' = [calls EXCEPT !.onDrag = @ + 1]
         /\ last' = Op("drag", gutterIndex, clientX, r.pair.a, r.pair.b, r.offset, "ok")

\* The bound drag function at the head of `pending` runs.
drag ==
    /\ pending # <<>>
    /\ Attached(Head(pending))
    /\ Head(pending)[1] = "drag"
    /\ DragEffect(Head(pending)[2], event.clientX,
                  DragOffset(Head(pending)[2], event.clientX))
    /\ pending' = Tail(pending)
    /\ UNCHANGED <<count, pushablePanes, sizesGiven, gutters, draggingGutter, listeners,
                   parentStyle, nextId, event, startPair, nEvents>>

(* ---------------------------- stopDragging ----------------------------- *)

\* The bound stopDragging function at the head of `pending` runs.
stopDragging ==
    /\ pending # <<>>
    /\ Attached(Head(pending))
    /\ Head(pending)[1] = "stopDragging"
    /\ LET gutterIndex == Head(pending)[2]
           g == gutters[gutterIndex]
           l1 == RemoveListeners(listeners, StopTypes, g.stop)
       IN  /\ calls' = IF draggingGutter # Null
                       THEN [calls EXCEPT !.onDragEnd = @ + 1] ELSE calls
           /\ listeners' = RemoveListeners(l1, MoveTypes, g.move)
           /\ gutters' = [gutters EXCEPT ![gutterIndex].move = NullFn,
                                         ![gutterIndex].stop = NullFn,
                                         ![gutterIndex].isDragging = "false",
                                         ![gutterIndex].cursor = ""]
           /\ panes' = [panes EXCEPT ![gutterIndex].noSelect = FALSE,
                                     ![gutterIndex].userSelect = "",
                                     ![gutterIndex + 1].noSelect = FALSE,
                                     ![gutterIndex + 1].userSelect = ""]
           /\ last' = Op("stopDragging", gutterIndex, Null, Null, Null, Undefined, "ok")
    /\ parentStyle' = ""
    /\ pending' = Tail(pending)
    /\ UNCHANGED <<count, pushablePanes, sizesGiven, draggingGutter, nextId, event,
                   startPair, nEvents>>

\* A listener that an earlier listener of the same event has removed is
\* not invoked.
SkipRemoved ==
    /\ pending # <<>>
    /\ ~Attached(Head(pending))
    /\ pending' = Tail(pending)
    /\ last' = Op("skip", Head(pending)[2], Null, Null, Null, Undefined, "ok")
    /\ UNCHANGED <<count, pushablePanes, sizesGiven, panes, gutters, draggingGutter,
                   listeners, parentStyle, nextId, calls, event, startPair,
                   nEvents>>

(* ------------------------------ collapse ------------------------------- *)

\* The pair collapse(i) builds.
CollapsePair(i) ==
    [a |-> IF i = count THEN i - 1 ELSE i,
     b |-> IF i = count THEN i ELSE i + 1,
     g |-> Null, size |-> Undefined, start |-> Undefined]

\* instance.collapse(i); adjust is called without an offset.
collapse(i) ==
    LET pair == CollapsePair(i)
    IN  /\ Quiet
        /\ IF HasPane(pair.a) /\ HasPane(pair.b)
           THEN /\ panes' = adjust(calculateSizes(pair), Undefined)
                /\ last' = Op("collapse", i, Null, pair.a, pair.b, Undefined, "ok")
           ELSE /\ last' = Op("collapse", i, Null, Null, Null, Undefined, "TypeError")
                /\ UNCHANGED panes
        /\ nEvents' = nEvents + 1
        /\ UNCHANGED <<count, pushablePanes, sizesGiven, gutters, draggingGutter, listeners,
                       parentStyle, nextId, calls, event, pending, startPair>>

(* ------------------------------ setSizes ------------------------------- *)

\* The arrays setSizes is called with: the first pane takes everything, or
\* every pane takes the same share.
NewSizes ==
    {[i \in PaneIdx |-> IF i = 0 THEN Rat(100) ELSE Rat(0)],
     [i \in PaneIdx |-> Div(Rat(100), Rat(count))]}

\* instance.setSizes(newSizes), for an array with one entry per pane.
setSizes(newSizes) ==
    /\ Quiet
    /\ panes' = [i \in PaneIdx |->
                    applyPaneSize([panes EXCEPT ![i].size = newSizes[i]], i)[i]]
    /\ last' = Op("setSizes", Null, Null, Null, Null, Undefined, "ok")
    /\ nEvents' = nEvents + 1
    /\ UNCHANGED <<count, pushablePanes, sizesGiven, gutters, draggingGutter, listeners,
                   parentStyle, nextId, calls, event, pending, startPair>>

(* ------------------------------ destroy -------------------------------- *)

\* el.style[dimension] = '': the pane has no size style.
NoStyle == Style(Undefined, Undefined)

\* instance.destroy(). The first loop hands the Gutter object g (not g.el)
\* to parent.removeChild, which throws a TypeError for an argument that is
\* not a Node; the second loop runs when the first had nothing to visit.
destroy ==
    /\ Quiet
    /\ IF GutterIdx # {}
       THEN /\ last' = Op("destroy", Null, Null, Null, Null, Undefined, "TypeError")
            /\ UNCHANGED panes
       ELSE /\ panes' = [i \in PaneIdx |-> [panes[i] EXCEPT !.style = NoStyle]]
            /\ last' = Op("destroy", Null, Null, Null, Null, Undefined, "ok")
    /\ nEvents' = nEvents + 1
    /\ UNCHANGED <<count, pushablePanes, sizesGiven, gutters, draggingGutter, listeners,
                   parentStyle, nextId, calls, event, pending, startPair>>

(* --------------------------- specification ----------------------------- *)

Next ==
    \/ \E gutterIndex \in GutterIdx : startDragging(gutterIndex)
    \/ \E type \in EventTypes : Dispatch(type)
    \/ drag
    \/ stopDragging
    \/ SkipRemoved
    \/ \E i \in 0 .. count : collapse(i)
    \/ \E newSizes \in NewSizes : setSizes(newSizes)
    \/ destroy

Spec == Init /\ [][Next]_vars

(* ------------------------- session vocabulary -------------------------- *)

\* Gutter g holds the bound handlers of a session (its session references).
SessionActive(g) == gutters[g].move \notin {UndefinedFn, NullFn}

\* No gutter holds session references: the state the specification calls Idle.
Idle == \A g \in GutterIdx : ~SessionActive(g)

(* ------------------------------- claims -------------------------------- *)

\* C1: a pointer-down on a gutter while a session on a different gutter is
\* active is ignored: the guard variable stays on the first gutter, no
\* listener is registered and no callback fires.
C1_SecondPointerDownIgnored ==
    [][\A g \in GutterIdx :
          (startDragging(g) /\ \E d \in GutterIdx : d # g /\ SessionActive(d))
          => /\ draggingGutter' = draggingGutter
             /\ listeners' = listeners
             /\ calls' = calls]_vars

\* C2: onDragStart fires once at every Idle-to-Dragging transition, the
\* first and every later one, not at a pointer-down inside a session, and
\* never on a move event.
C2_OnDragStartOncePerSession ==
    [][/\ \A g \in GutterIdx :
             startDragging(g)
             => calls'.onDragStart = calls.onDragStart + (IF Idle THEN 1 ELSE 0)
       /\ drag => calls'.onDragStart = calls.onDragStart]_vars

\* C3: onDragEnd fires once when a stop event ends the session, and not when
\* the stop handler runs again or runs with no active session.
C3_OnDragEndOncePerSession ==
    [][stopDragging
       => calls'.onDragEnd = calls.onDragEnd + (IF Idle THEN 0 ELSE 1)]_vars

\* C4: a move event handled while no session is active changes no pane size
\* and fires no callback.
C4_MoveWithoutSessionIsNoOp ==
    [][(drag /\ Idle)
       => /\ \A i \in PaneIdx : panes'[i].size = panes[i].size
          /\ calls' = calls]_vars

\* C5: once a stop event has been handled, no move listener and no stop
\* listener is registered on the global event source any more.
C5_NoListenerAfterStop ==
    (/\ pending = <<>>
     /\ event.type \in StopTypes
     /\ last.op \in {"stopDragging", "skip"})
    => \A t \in EventTypes : listeners[t] = <<>>

\* C6: adjust leaves a.size + b.size as it was, for the pair and the offset
\* of every call drag and collapse make.
C6_AdjustConservesPairSum ==
    [][((drag \/ \E i \in 0 .. count : collapse(i))
        /\ last'.result = "ok"
        /\ IsFinite(Add(panes[last'.a].size, panes[last'.b].size)))
       => NumEq(Add(panes'[last'.a].size, panes'[last'.b].size),
                Add(panes[last'.a].size, panes[last'.b].size))]_vars

\* size of pane 0 + ... + size of pane n - 1
RECURSIVE SumSizes(_, _)
SumSizes(ps, n) == IF n = 0 THEN Rat(0) ELSE Add(SumSizes(ps, n - 1), ps[n - 1].size)

\* C7: the pane sizes add up to 100 at rest: after construction, where each
\* pane has 100/count when `sizes` is omitted, and after every completed move
\* event and collapse call.
C7_SizesSumTo100 ==
    /\ pending = <<>> => NumEq(SumSizes(panes, count), Rat(100))
    /\ (last.op = "Split" /\ ~sizesGiven)
       => \A i \in PaneIdx : panes[i].size = Div(Rat(100), Rat(count))

\* C8: with pushable mode off, a move event of a session on gutter g leaves
\* the size of every pane other than g and g + 1 as it was.
C8_DragChangesOnlyItsPair ==
    [][(drag /\ ~pushablePanes)
       => \A i \in PaneIdx \ {Head(pending)[2], Head(pending)[2] + 1} :
             /\ panes'[i].size = panes[i].size
             /\ panes'[i].style = panes[i].style]_vars

\* A move event of a non-pushable split of three or more panes has resized
\* the pair of its gutter, and a pane outside the pair still has its size.
C8_Witness ==
    /\ last.op = "drag" /\ last.result = "ok"
    /\ ~pushablePanes
    /\ count >= 3
    /\ panes[last.g].size # Div(Rat(100), Rat(count))
    /\ \E i \in PaneIdx \ {last.g, last.g + 1} :
          ~sizesGiven /\ panes[i].size = Div(Rat(100), Rat(count))

\* The offset the snap policy of the specification yields for the raw offset
\* raw in a pair of extent pairSize with minimums aMin and bMin.
SnapPolicy(raw, pairSize, aMin, bMin) ==
    IF Le(raw, Add(Add(aMin, Rat(snapOffset)), Rat(gutterSize)))
    THEN Add(aMin, Rat(gutterSize))
    ELSE IF Ge(raw, Sub(pairSize, Add(Add(bMin, Rat(snapOffset)), Rat(gutterSize))))
    THEN Sub(pairSize, Add(bMin, Rat(gutterSize)))
    ELSE raw

\* The pixel extent of panes a and b and of the gutters between them.
PairExtent(ps, a, b) ==
    Add(Add(BoundsSize(ps, a), Rat((b - a) * gutterSize)), BoundsSize(ps, b))

\* C9: the offset a move event hands to adjust is the snapped raw offset,
\* the raw offset being the pointer coordinate minus the start captured at
\* the session's pointer-down.
C9_AdjustGetsSnappedOffset ==
    [][(drag /\ last'.result = "ok" /\ startPair.g = Head(pending)[2])
       => NumEq(last'.offset,
                SnapPolicy(Sub(Rat(event.clientX), startPair.start),
                           PairExtent(panes, last'.a, last'.b),
                           panes[last'.a].minSize, panes[last'.b].minSize))]_vars

\* C10: with pushable mode off, when a move event has settled every pane is
\* at least minSize pixels wide, unless its minSize is more than the space
\* there is.
C10_MinSizeRespected ==
    (/\ ~pushablePanes
     /\ pending = <<>>
     /\ event.type \in MoveTypes
     /\ last.op \in {"drag", "skip"})
    => \A i \in PaneIdx :
          Le(panes[i].minSize, Rat(ParentSize))
          => Ge(BoundsSize(panes, i), panes[i].minSize)

\* C11: with pushable mode on, when a move event has settled (one that
\* cascades over more than two panes included) every pane is at least minSize
\* pixels wide, unless its minSize is more than the space there is.
C11_PushableMinSizeRespected ==
    (/\ pushablePanes
     /\ pending = <<>>
     /\ event.type \in MoveTypes
     /\ last.op \in {"drag", "skip"})
    => \A i \in PaneIdx :
          Le(panes[i].minSize, Rat(ParentSize))
          => Ge(BoundsSize(panes, i), panes[i].minSize)

\* The pane next to pane i that collapse(i) is to pair it with.
Neighbour(i) == IF i = count - 1 THEN i - 1 ELSE i + 1

\* The percentage that corresponds to the minimum extent of pane i inside
\* the pair it forms with pane n.
MinPercentage(ps, i, n) ==
    Mul(Div(ps[i].minSize,
            PairExtent(ps, IF i < n THEN i ELSE n, IF i < n THEN n ELSE i)),
        Add(ps[i].size, ps[n].size))

\* C12: collapse(i) gives pane i the percentage of its minimum extent, its
\* neighbour takes what pane i gave up, so that the sum of the two sizes is
\* as before, and no other pane changes.
C12_CollapseToMinimum ==
    [][\A i \in PaneIdx :
          (count >= 2 /\ collapse(i))
          => /\ NumEq(panes'[i].size, MinPercentage(panes, i, Neighbour(i)))
             /\ NumEq(Add(panes'[i].size, panes'[Neighbour(i)].size),
                      Add(panes[i].size, panes[Neighbour(i)].size))
             /\ \A k \in PaneIdx \ {i, Neighbour(i)} :
                   panes'[k].size = panes[k].size]_vars

\* C13: destroy() completes, after it no gutter element is a child of the
\* parent and no pane has a size style, however many gutters the split has.
C13_DestroyRemovesGuttersAndStyles ==
    [][destroy
       => /\ last'.result = "ok"
          /\ \A g \in GutterIdx : ~gutters'[g].inParent
          /\ \A i \in PaneIdx : panes'[i].style = NoStyle]_vars

C15_MoveUsesSessionSnapshot ==
    [][(drag /\ last'.result = "ok" /\ startPair.g = Head(pending)[2])
       => /\ NumEq(EventOffset(GutterPair(Head(pending)[2]), event.clientX),
                   Sub(Rat(event.clientX), startPair.start))
          /\ NumEq(panes'[last'.a].size,
                   Mul(Div(last'.offset, PairExtent(panes, last'.a, last'.b)),
                       Add(panes[last'.a].size, panes[last'.b].size)))]_vars

\* C16 speaks of the moves whose cascade block changes pair.a or pair.b. No
\* move event is one of them: the pair adjust is called with is the pair of
\* the gutter.
C16_CascadeNeverShifts ==
    [][(drag /\ pushablePanes /\ last'.result = "ok")
       => /\ last'.a = Head(pending)[2]
          /\ last'.b = Head(pending)[2] + 1]_vars

\* C17: in a split of two or more panes, collapse(i) for a pane index i
\* works on two existing adjacent panes, one of them pane i (the last two
\* panes for the last pane), and on no index outside 0 .. count - 1.
C17_CollapsePairInsideSplit ==
    [][\A i \in PaneIdx :
          (count >= 2 /\ collapse(i))
          => /\ HasPane(CollapsePair(i).a) /\ HasPane(CollapsePair(i).b)
             /\ CollapsePair(i).b = CollapsePair(i).a + 1
             /\ i \in {CollapsePair(i).a, CollapsePair(i).b}
             /\ last'.result = "ok"]_vars

\* The pixel size pane i has when the constructor measures it.
InitialPx(i) == StylePx(Style(sizes(count, sizesGiven)[i], gutSize(i)))

\* C18: from construction on, the minSize of every pane is at most the
\* pixel size the pane was first given: it is the configured minSize when
\* that is not more than this pixel size, and this pixel size otherwise.
C18_MinSizeAtMostInitialPx ==
    \A i \in PaneIdx :
       /\ Le(panes[i].minSize, InitialPx(i))
       /\ panes[i].minSize = IF Le(Rat(minSize), InitialPx(i)) THEN Rat(minSize)
                             ELSE InitialPx(i)

\* A split has just been built in which the minSize of one pane was lowered
\* to its pixel size and that of another was kept.
C18_Witness ==
    /\ last.op = "Split"
    /\ \E i \in PaneIdx :
          Lt(InitialPx(i), Rat(minSize)) /\ panes[i].minSize = BoundsSize(panes, i)
    /\ \E i \in PaneIdx :
          Gt(InitialPx(i), Rat(minSize)) /\ panes[i].minSize = Rat(minSize)

\* C19: the size of every pane is a percentage from 0 to 100 in every
\* reachable state, whatever move events, collapse calls and setSizes calls
\* with values from 0 to 100 there have been.
C19_SizeIsPercentage ==
    \A i \in PaneIdx : Ge(panes[i].size, Rat(0)) /\ Le(panes[i].size, Rat(100))

\* C20: the callbacks are well bracketed: onDragEnd has never been called
\* more often than onDragStart, and onDrag is called only while an
\* onDragStart call is not yet followed by its onDragEnd call.
C20_CallbacksWellBracketed ==
    /\ [](calls.onDragEnd <= calls.onDragStart)
    /\ [][calls'.onDrag # calls.onDrag
          => calls.onDragStart > calls.onDragEnd]_vars

\* The gutter allowances applyPaneSize subtracts from panes 0 .. n - 1.
RECURSIVE SumAllowances(_)
SumAllowances(n) == IF n = 0 THEN Rat(0) ELSE Add(SumAllowances(n - 1), gutSize(n - 1))

\* The pixel sizes of panes 0 .. n - 1.
RECURSIVE SumPx(_, _)
SumPx(ps, n) == IF n = 0 THEN Rat(0) ELSE Add(SumPx(ps, n - 1), BoundsSize(ps, n - 1))

\* The width of the gutter elements the constructor has created.
GuttersWidth == Rat(Cardinality(DOMAIN gutters) * gutterSize)

\* C21: for every number of panes from 1 on, the allowances applyPaneSize
\* subtracts add up to the width of the gutters created,
\* (count - 1) * gutterSize, so that panes whose sizes add up to 100 fill the
\* parent together with the gutters.
C21_AllowancesMatchGutters ==
    /\ NumEq(SumAllowances(count), GuttersWidth)
    /\ GuttersWidth = Rat((count - 1) * gutterSize)
    /\ (NumEq(SumSizes(panes, count), Rat(100))
        /\ \A i \in PaneIdx : panes[i].style # NoStyle)
       => NumEq(Add(SumPx(panes, count), GuttersWidth), Rat(ParentSize))

\* In a split of two or more panes the allowances do add up to the width of
\* the gutters: the case C21 fails for is the split of one pane.
C21_HoldsFromTwoPanes ==
    count >= 2 => NumEq(SumAllowances(count), GuttersWidth)

====
